---- MODULE Spec2Model ----
(***************************************************************************)
(* Model of ui.NonInteractiveUI and ui.WriterUI (src/ui/non_interactive.go) *)
(*                                                                         *)
(* Strings and byte blocks are sequences of text pieces (single characters *)
(* for inputs, whole literals for the texts the code itself supplies), so  *)
(* that concatenation, the line terminator added by Fprintln, the decimal  *)
(* form produced by strconv.Itoa and a partially accepted write are all    *)
(* observable.  The collaborators behind interfaces (the two io.Writers,   *)
(* the ExternalLogger, the prompt engine, the parent UI) are modelled by   *)
(* what they have received so far.                                         *)
(***************************************************************************)
EXTENDS Integers, Sequences, FiniteSets, TLC

\* Number of UI method calls explored in one behaviour.
MaxCalls == 2

VARIABLES
    outWriter,  \* WriterUI.outWriter: the bytes the normal stream has accepted
    errWriter,  \* WriterUI.errWriter: the bytes the error stream has accepted
    logger,     \* WriterUI.logger: the Error(...) reports it has received
    engine,     \* interactions handed to the prompt engine (interact.NewInteraction(...).Resolve)
    parent,     \* NonInteractiveUI.parent: the calls the wrapped UI has received
    calls       \* the calls made on the two UIs so far, with inputs and results

vars == <<outWriter, errWriter, logger, engine, parent, calls>>

-----------------------------------------------------------------------------
(* Values *)

\* Go's nil error and a non-nil error carrying a message.
Nil == [isNil |-> TRUE, msg |-> <<>>]
Err(m) == [isNil |-> FALSE, msg |-> m]

LF == <<"\n">>

\* The results of a call: a normal return of (val, err), a normal return of
\* a method without results, or a panic carrying a value.
Return(v, e) == [outcome |-> "return", val |-> v, err |-> e]
ReturnVoid == [outcome |-> "return"]
Panic(v) == [outcome |-> "panic", val |-> v]

\* strconv.Itoa: the decimal digits of a non-negative integer ...
Digits == <<"0", "1", "2", "3", "4", "5", "6", "7", "8", "9">>

RECURSIVE UDigits(_)
UDigits(n) == IF n < 10 THEN <<Digits[n + 1]>>
              ELSE UDigits(n \div 10) \o <<Digits[(n % 10) + 1]>>

\* ... with a leading minus sign for a negative one.
Itoa(i) == IF i < 0 THEN <<"-">> \o UDigits(0 - i) ELSE UDigits(i)

\* fmt.Sprintf(pattern, args...) for patterns made of literal characters and
\* the verb %d, with integer arguments: each verb consumes one argument, a
\* verb without argument prints %!d(MISSING) and arguments left over print %!(EXTRA ...).
RECURSIVE ExtraArgs(_)
ExtraArgs(args) ==
    IF args = <<>> THEN <<>>
    ELSE <<"int=">> \o Itoa(Head(args))
         \o (IF Tail(args) = <<>> THEN <<>> ELSE <<", ">> \o ExtraArgs(Tail(args)))

RECURSIVE Sprintf(_, _)
Sprintf(pattern, args) ==
    IF pattern = <<>>
    THEN IF args = <<>> THEN <<>> ELSE <<"%!(EXTRA ">> \o ExtraArgs(args) \o <<")">>
    ELSE IF Head(pattern) = "%d"
         THEN IF args = <<>>
              THEN <<"%!d(MISSING)">> \o Sprintf(Tail(pattern), args)
              ELSE Itoa(Head(args)) \o Sprintf(Tail(pattern), Tail(args))
         ELSE <<Head(pattern)>> \o Sprintf(Tail(pattern), args)

\* %s applied to a []string: the elements between brackets, separated by spaces.
RECURSIVE JoinStrings(_)
JoinStrings(ss) ==
    IF ss = <<>> THEN <<>>
    ELSE Head(ss) \o (IF Tail(ss) = <<>> THEN <<>> ELSE <<" ">> \o JoinStrings(Tail(ss)))

FormatStrings(ss) == <<"[">> \o JoinStrings(ss) \o <<"]">>

-----------------------------------------------------------------------------
(* Inputs *)

\* (pattern, args...) pairs given to the *Linef methods.
FormatCalls == { [pattern |-> <<"x", "=", "%d">>, args |-> <<5>>],
                 [pattern |-> <<"e">>, args |-> <<>>] }

Blocks == { <<"b">> }
ErrorBlocks == { <<"w">> }

\* A table and what the table engine renders for it.
Tables == { [name |-> "t1", rendered |-> <<"t">>] }

Labels == { <<"l">> }

\* Validation functions: any mapping of a candidate default to (is-valid, error).
ValidateErrors == { Err(<<"v">>) }
ValidateResults == [isValid : BOOLEAN, err : {Nil} \cup ValidateErrors]

TextDefaults == { <<>>, <<"a">> }
TextValidateFuncs == [TextDefaults -> ValidateResults]

ChoiceDefaults == { 0, 1 }
ChoiceValidateFuncs == [ChoiceDefaults -> ValidateResults]

\* TextOpts / ChoiceOpts as NonInteractiveUI reads them; hasValidateFunc is
\* ValidateFunc != nil.
NoValidateFunc(defaults) == [d \in defaults |-> [isValid |-> TRUE, err |-> Nil]]

NonInteractiveTextOpts ==
    [Label : Labels, Default : TextDefaults, hasValidateFunc : {TRUE},
     ValidateFunc : TextValidateFuncs]
    \cup [Label : Labels, Default : TextDefaults, hasValidateFunc : {FALSE},
          ValidateFunc : {NoValidateFunc(TextDefaults)}]

NonInteractiveChoiceOpts ==
    [Label : Labels, Default : ChoiceDefaults, Choices : {<< <<"a">>, <<"b">> >>},
     hasValidateFunc : {TRUE}, ValidateFunc : ChoiceValidateFuncs]
    \cup [Label : Labels, Default : ChoiceDefaults, Choices : {<< <<"a">>, <<"b">> >>},
          hasValidateFunc : {FALSE}, ValidateFunc : {NoValidateFunc(ChoiceDefaults)}]

-----------------------------------------------------------------------------
(* State *)

Init ==
    /\ outWriter = <<>>
    /\ errWriter = <<>>
    /\ logger = <<>>
    /\ engine = <<>>
    /\ parent = <<>>
    /\ calls = <<>>

\* One more call fits the explored length.
MayCall == Len(calls) < MaxCalls

Called(ui, op, in, ret) == [ui |-> ui, op |-> op, in |-> in, ret |-> ret]

-----------------------------------------------------------------------------
(* NonInteractiveUI *)

\* What the parent UI records for a call it receives.
ParentCall(op, in) == [op |-> op, in |-> in]

\* The forwarding methods: one call of the named parent method with the
\* arguments received, and nothing else.
Forward(op, parentOp, in) ==
    /\ MayCall
    /\ parent' = Append(parent, ParentCall(parentOp, in))
    /\ calls' = Append(calls, Called("NonInteractiveUI", op, in, ReturnVoid))
    /\ UNCHANGED <<outWriter, errWriter, logger, engine>>

NonInteractiveErrorLinef ==
    \E c \in FormatCalls : Forward("ErrorLinef", "ErrorLinef", c)

NonInteractivePrintLinef ==
    \E c \in FormatCalls : Forward("PrintLinef", "PrintLinef", c)

NonInteractiveBeginLinef ==
    \E c \in FormatCalls : Forward("BeginLinef", "BeginLinef", c)

NonInteractiveEndLinef ==
    \E c \in FormatCalls : Forward("EndLinef", "EndLinef", c)

NonInteractivePrintBlock ==
    \E b \in Blocks : Forward("PrintBlock", "PrintBlock", [block |-> b])

\* A faulty variant: the error block is handed to the parent's PrintBlock.
NonInteractivePrintErrorBlockAsPrintBlock ==
    \E b \in ErrorBlocks : Forward("PrintErrorBlock", "PrintBlock", [block |-> b])

NonInteractivePrintErrorBlock ==
    \E b \in ErrorBlocks : Forward("PrintErrorBlock", "PrintErrorBlock", [block |-> b])

NonInteractivePrintTable ==
    \E t \in Tables : Forward("PrintTable", "PrintTable", [table |-> t])

NonInteractiveFlush == Forward("Flush", "Flush", [none |-> TRUE])

\* A faulty variant: a validated default is dropped and the zero value returned.
NonInteractiveAskForTextResultDropsDefault(opts) ==
    IF opts.hasValidateFunc
    THEN LET r == opts.ValidateFunc[opts.Default]
         IN  Return(<<>>, IF ~r.err.isNil \/ ~r.isValid THEN r.err ELSE Nil)
    ELSE Return(opts.Default, Nil)

\* A faulty variant: the default index is returned along with the validator's error.
NonInteractiveAskForChoiceResultKeepsDefault(opts) ==
    IF opts.hasValidateFunc
    THEN LET r == opts.ValidateFunc[opts.Default]
         IN  IF ~r.err.isNil \/ ~r.isValid
             THEN Return(opts.Default, r.err)
             ELSE Return(opts.Default, Nil)
    ELSE Return(opts.Default, Nil)

\* AskForText / AskForChoice: the validator, when present, is applied to the
\* default; an error or an invalid default returns the zero value and the
\* validator's error, otherwise the default is returned with a nil error.
NonInteractiveAskForTextResult(opts) ==
    IF opts.hasValidateFunc
    THEN LET r == opts.ValidateFunc[opts.Default]
         IN  IF ~r.err.isNil \/ ~r.isValid
             THEN Return(<<>>, r.err)
             ELSE Return(opts.Default, Nil)
    ELSE Return(opts.Default, Nil)

NonInteractiveAskForChoiceResult(opts) ==
    IF opts.hasValidateFunc
    THEN LET r == opts.ValidateFunc[opts.Default]
         IN  IF ~r.err.isNil \/ ~r.isValid
             THEN Return(0, r.err)
             ELSE Return(opts.Default, Nil)
    ELSE Return(opts.Default, Nil)

\* A NonInteractiveUI method that touches no collaborator.
Answer(op, in, ret) ==
    /\ MayCall
    /\ calls' = Append(calls, Called("NonInteractiveUI", op, in, ret))
    /\ UNCHANGED <<outWriter, errWriter, logger, engine, parent>>

NonInteractiveAskForText ==
    \E opts \in NonInteractiveTextOpts :
        Answer("AskForText", opts, NonInteractiveAskForTextResult(opts))

NonInteractiveAskForChoice ==
    \E opts \in NonInteractiveChoiceOpts :
        Answer("AskForChoice", opts, NonInteractiveAskForChoiceResult(opts))

\* A faulty variant: the refusal is returned as an error instead of a panic.
NonInteractiveAskForPasswordResultReturnsError(label) ==
    Return(<<>>, Err(<<"Cannot ask for password in non-interactive UI">>))

NonInteractiveAskForPasswordResult(label) ==
    Panic("Cannot ask for password in non-interactive UI")

NonInteractiveAskForPassword ==
    \E label \in Labels :
        Answer("AskForPassword", [label |-> label], NonInteractiveAskForPasswordResult(label))

\* A faulty variant: confirmation is declined as it is for an unanswered prompt.
NonInteractiveAskForConfirmationResultStopped ==
    [outcome |-> "return", err |-> Err(<<"Stopped">>)]

NonInteractiveAskForConfirmationResult == [outcome |-> "return", err |-> Nil]

NonInteractiveAskForConfirmation ==
    Answer("AskForConfirmation", [none |-> TRUE], NonInteractiveAskForConfirmationResult)

NonInteractiveIsInteractive ==
    Answer("IsInteractive", [none |-> TRUE], [outcome |-> "return", val |-> FALSE])

NextNonInteractive ==
    \/ NonInteractiveErrorLinef
    \/ NonInteractivePrintLinef
    \/ NonInteractiveBeginLinef
    \/ NonInteractiveEndLinef
    \/ NonInteractivePrintBlock
    \/ NonInteractivePrintErrorBlock
    \/ NonInteractivePrintTable
    \/ NonInteractiveAskForText
    \/ NonInteractiveAskForChoice
    \/ NonInteractiveAskForPassword
    \/ NonInteractiveAskForConfirmation
    \/ NonInteractiveIsInteractive
    \/ NonInteractiveFlush

SpecNonInteractive == Init /\ [][NextNonInteractive]_vars

-----------------------------------------------------------------------------
(* WriterUI: collaborators *)

logTag == "ui"

\* The errors a stream write, a table rendering and the prompt engine fail with.
WriteErrors == { Err(<<"EIO">>) }
EngineErrors == { Err(<<"EOF">>) }

\* What a write of the bytes p may do: accept all of them and succeed, or
\* fail after having accepted any number of them.
WriteOutcomes(p) ==
    { [n |-> Len(p), err |-> Nil] }
    \cup { [n |-> k, err |-> e] : k \in 0..Len(p), e \in WriteErrors }

\* What Resolve(&dst) may do: fail, leave dst at its default, or store an answer.
ResolveOutcomes(answers) ==
    { [kind |-> "fail", err |-> e] : e \in EngineErrors }
    \cup { [kind |-> "default"] }
    \cup { [kind |-> "answer", value |-> v] : v \in answers }

Resolved(dst, o) == IF o.kind = "answer" THEN o.value ELSE dst

\* An argument handed to the logger, with its dynamic type.
Arg(type, v) == [type |-> type, v |-> v]

\* logger.Error(tag, format, args...) as the logger records it.
LoggerError(tag, format, args) == [tag |-> tag, format |-> format, args |-> args]

\* A faulty variant: the nil check is inverted.
LoggedOnSuccess(log, format, lead, err) ==
    IF err.isNil
    THEN Append(log, LoggerError("ui", format, lead \o <<Arg("error", err)>>))
    ELSE log

\* if err != nil { ui.logger.Error(ui.logTag, format, lead..., err) }
Logged(log, format, lead, err) ==
    IF ~err.isNil
    THEN Append(log, LoggerError(logTag, format, lead \o <<Arg("error", err)>>))
    ELSE log

WriterCalled(op, in, ret, io) ==
    [ui |-> "WriterUI", op |-> op, in |-> in, ret |-> ret, io |-> io]

-----------------------------------------------------------------------------
(* WriterUI: output *)

\* An output method: the bytes p go to the stream w in one write (or one
\* rendering), whose failure is reported to the logger; the method returns.
Output(op, in, w, p, format, lead) ==
    /\ MayCall
    /\ \E o \in WriteOutcomes(p) :
        /\ IF w = "errWriter"
           THEN /\ errWriter' = errWriter \o SubSeq(p, 1, o.n)
                /\ UNCHANGED outWriter
           ELSE /\ outWriter' = outWriter \o SubSeq(p, 1, o.n)
                /\ UNCHANGED errWriter
        /\ logger' = Logged(logger, format, lead, o.err)
        /\ calls' = Append(calls, WriterCalled(op, in, ReturnVoid,
                                               [w |-> w, p |-> p, n |-> o.n, err |-> o.err]))
    /\ UNCHANGED <<engine, parent>>

WriterErrorLinef ==
    \E c \in FormatCalls :
        LET message == Sprintf(c.pattern, c.args)
        IN  Output("ErrorLinef", c, "errWriter", message \o LF,
                   "UI.ErrorLinef failed (message='%s'): %s", <<Arg("string", message)>>)

WriterPrintLinef ==
    \E c \in FormatCalls :
        LET message == Sprintf(c.pattern, c.args)
        IN  Output("PrintLinef", c, "outWriter", message \o LF,
                   "UI.PrintLinef failed (message='%s'): %s", <<Arg("string", message)>>)

WriterBeginLinef ==
    \E c \in FormatCalls :
        LET message == Sprintf(c.pattern, c.args)
        IN  Output("BeginLinef", c, "outWriter", message,
                   "UI.BeginLinef failed (message='%s'): %s", <<Arg("string", message)>>)

WriterEndLinef ==
    \E c \in FormatCalls :
        LET message == Sprintf(c.pattern, c.args)
        IN  Output("EndLinef", c, "outWriter", message \o LF,
                   "UI.EndLinef failed (message='%s'): %s", <<Arg("string", message)>>)

WriterPrintBlock ==
    \E b \in Blocks :
        Output("PrintBlock", [block |-> b], "outWriter", b,
               "UI.PrintBlock failed (message='%s'): %s", <<Arg("bytes", b)>>)

\* A faulty variant: the error block goes to the error stream.
WriterPrintErrorBlockToErrWriter ==
    \E b \in ErrorBlocks :
        Output("PrintErrorBlock", [block |-> b], "errWriter", b,
               "UI.PrintErrorBlock failed (message='%s'): %s", <<Arg("string", b)>>)

WriterPrintErrorBlock ==
    \E b \in ErrorBlocks :
        Output("PrintErrorBlock", [block |-> b], "outWriter", b,
               "UI.PrintErrorBlock failed (message='%s'): %s", <<Arg("string", b)>>)

\* table.Print(ui.outWriter): the table engine writes what it renders.
WriterPrintTable ==
    \E t \in Tables :
        Output("PrintTable", [table |-> t], "outWriter", t.rendered,
               "UI.PrintTable failed: %s", <<>>)

-----------------------------------------------------------------------------
(* WriterUI: prompts *)

WriterTextOpts == [Label : Labels, DefaultValue : TextDefaults]
TextAnswers == { <<"z">> }
Passwords == { <<"p">> }

\* Choice lists and default indexes; a choice is a string.
ChoiceLists == { <<>>,
                 << <<"a">>, <<"b">>, <<"c">> >>,
                 << <<"1">>, <<"b">> >>,
                 << <<"-", "1">>, <<"1", "0">> >> }
WriterChoiceDefaults == { -1, 0, 1, 10 }
WriterChoiceOpts == [Label : Labels, DefaultValue : WriterChoiceDefaults, Choices : ChoiceLists]

\* interact.NewInteraction(label, choices...).Resolve(&dst) as the engine records it.
Interaction(label, choices) == [label |-> label, choices |-> choices]

\* A prompt method that blocks on the engine and returns result(o) for the
\* engine's outcome o.
Prompt(op, in, label, choices, o, ret) ==
    /\ MayCall
    /\ engine' = Append(engine, Interaction(label, choices))
    /\ calls' = Append(calls, WriterCalled(op, in, ret, o))
    /\ UNCHANGED <<outWriter, errWriter, logger, parent>>

\* A prompt method that returns before reaching the engine.
Reject(op, in, ret) ==
    /\ MayCall
    /\ calls' = Append(calls, WriterCalled(op, in, ret, [kind |-> "none"]))
    /\ UNCHANGED <<outWriter, errWriter, logger, engine, parent>>

WriterAskForTextResult(opts, o) ==
    IF o.kind = "fail"
    THEN Return(<<>>, Err(<<"Asking for text: ">> \o o.err.msg))
    ELSE Return(Resolved(opts.DefaultValue, o), Nil)

WriterAskForText ==
    \E opts \in WriterTextOpts : \E o \in ResolveOutcomes(TextAnswers) :
        Prompt("AskForText", opts, opts.Label, <<>>, o, WriterAskForTextResult(opts, o))

\* The loop over opts.Choices: the interact.Choice list, each choice paired
\* with its position, and whether some choice equals the default's decimal form.
InteractChoices(opts) ==
    [i \in DOMAIN opts.Choices |-> [Display |-> opts.Choices[i], Value |-> i - 1]]

\* A faulty variant: the default is taken as a position in the choice list.
DefaultIsAPosition(opts) ==
    \E i \in DOMAIN opts.Choices : i - 1 = opts.DefaultValue

DefaultMatchingWithChoices(opts) ==
    \E i \in DOMAIN opts.Choices : opts.Choices[i] = Itoa(opts.DefaultValue)

WriterAskForChoiceMismatch(opts) ==
    Return(0, Err(<<"Default value: ">> \o Itoa(opts.DefaultValue)
                  \o <<" should match with one of the choices: ">>
                  \o FormatStrings(opts.Choices)))

WriterAskForChoiceResult(opts, o) ==
    IF o.kind = "fail"
    THEN Return(0, Err(<<"Asking for choice: ">> \o o.err.msg))
    ELSE Return(Resolved(opts.DefaultValue, o), Nil)

WriterAskForChoice ==
    \E opts \in WriterChoiceOpts :
        IF ~DefaultMatchingWithChoices(opts)
        THEN Reject("AskForChoice", opts, WriterAskForChoiceMismatch(opts))
        ELSE \E o \in ResolveOutcomes({ c.Value : c \in { InteractChoices(opts)[i] : i \in DOMAIN opts.Choices } }) :
                Prompt("AskForChoice", opts, opts.Label, InteractChoices(opts), o,
                       WriterAskForChoiceResult(opts, o))

WriterAskForPasswordResult(o) ==
    IF o.kind = "fail"
    THEN Return(<<>>, Err(<<"Asking for password: ">> \o o.err.msg))
    ELSE Return(Resolved(<<>>, o), Nil)

WriterAskForPassword ==
    \E label \in Labels : \E o \in ResolveOutcomes(Passwords) :
        Prompt("AskForPassword", [label |-> label], label, <<>>, o,
               WriterAskForPasswordResult(o))

\* A faulty variant: any resolution without error counts as a confirmation.
WriterAskForConfirmationResultIgnoresAnswer(o) ==
    IF o.kind = "fail"
    THEN [outcome |-> "return", err |-> Err(<<"Asking for confirmation: ">> \o o.err.msg)]
    ELSE [outcome |-> "return", err |-> Nil]

WriterAskForConfirmationResult(o) ==
    LET falseByDefault == Resolved(FALSE, o)
    IN  IF o.kind = "fail"
        THEN [outcome |-> "return", err |-> Err(<<"Asking for confirmation: ">> \o o.err.msg)]
        ELSE IF falseByDefault = FALSE
             THEN [outcome |-> "return", err |-> Err(<<"Stopped">>)]
             ELSE [outcome |-> "return", err |-> Nil]

WriterAskForConfirmation ==
    \E o \in ResolveOutcomes(BOOLEAN) :
        Prompt("AskForConfirmation", [none |-> TRUE], <<"Continue?">>, <<>>, o,
               WriterAskForConfirmationResult(o))

\* IsInteractive and Flush touch nothing.
WriterIsInteractive ==
    /\ MayCall
    /\ calls' = Append(calls, WriterCalled("IsInteractive", [none |-> TRUE],
                                           [outcome |-> "return", val |-> TRUE], [kind |-> "none"]))
    /\ UNCHANGED <<outWriter, errWriter, logger, engine, parent>>

WriterFlush ==
    /\ MayCall
    /\ calls' = Append(calls, WriterCalled("Flush", [none |-> TRUE], ReturnVoid, [kind |-> "none"]))
    /\ UNCHANGED <<outWriter, errWriter, logger, engine, parent>>

NextWriter ==
    \/ WriterErrorLinef
    \/ WriterPrintLinef
    \/ WriterBeginLinef
    \/ WriterEndLinef
    \/ WriterPrintBlock
    \/ WriterPrintErrorBlock
    \/ WriterPrintTable
    \/ WriterAskForText
    \/ WriterAskForChoice
    \/ WriterAskForPassword
    \/ WriterAskForConfirmation
    \/ WriterIsInteractive
    \/ WriterFlush

SpecWriter == Init /\ [][NextWriter]_vars

-----------------------------------------------------------------------------
(* Properties of NonInteractiveUI *)

\* The calls of method op made on the given UI so far.
CallsOf(ui, op) == { i \in DOMAIN calls : calls[i].ui = ui /\ calls[i].op = op }

NonInteractiveAsks == CallsOf("NonInteractiveUI", "AskForText")
                      \cup CallsOf("NonInteractiveUI", "AskForChoice")

\* What the validator of an ask call said about its default.
Validated(c) == c.in.ValidateFunc[c.in.Default]

ZeroOf(c) == IF c.op = "AskForText" THEN <<>> ELSE 0

\* C1: when the validator reports the default invalid or returns an error,
\* AskForText / AskForChoice fail: they return a non-nil error.
C1_InvalidDefaultFails ==
    \A i \in NonInteractiveAsks :
        (calls[i].in.hasValidateFunc
         /\ (~Validated(calls[i]).isValid \/ ~Validated(calls[i]).err.isNil))
        => (calls[i].ret.outcome = "return" /\ ~calls[i].ret.err.isNil)

\* C2: without a validator, or with one that answers (true, nil) on the
\* default, AskForText / AskForChoice return exactly the default and a nil error.
C2_ValidDefaultReturned ==
    \A i \in NonInteractiveAsks :
        (~calls[i].in.hasValidateFunc
         \/ Validated(calls[i]) = [isValid |-> TRUE, err |-> Nil])
        => calls[i].ret = Return(calls[i].in.Default, Nil)

C2_Witness ==
    /\ \E i \in CallsOf("NonInteractiveUI", "AskForText") :
          /\ calls[i].in.hasValidateFunc
          /\ Validated(calls[i]) = [isValid |-> TRUE, err |-> Nil]
          /\ calls[i].in.Default = <<"a">>
          /\ calls[i].ret.val = <<"a">>
    /\ \E i \in CallsOf("NonInteractiveUI", "AskForChoice") :
          /\ ~calls[i].in.hasValidateFunc
          /\ calls[i].in.Default = 1
          /\ calls[i].ret.val = 1

\* C3: when the validator returns a non-nil error, with either validity
\* flag, AskForText / AskForChoice return that very error and the zero value.
C3_ValidatorErrorReturned ==
    \A i \in NonInteractiveAsks :
        (calls[i].in.hasValidateFunc /\ ~Validated(calls[i]).err.isNil)
        => calls[i].ret = Return(ZeroOf(calls[i]), Validated(calls[i]).err)

C3_Witness ==
    /\ \E i \in CallsOf("NonInteractiveUI", "AskForText") :
          /\ calls[i].in.hasValidateFunc
          /\ Validated(calls[i]) = [isValid |-> TRUE, err |-> Err(<<"v">>)]
          /\ calls[i].in.Default = <<"a">>
          /\ calls[i].ret = Return(<<>>, Err(<<"v">>))
    /\ \E i \in CallsOf("NonInteractiveUI", "AskForChoice") :
          /\ calls[i].in.hasValidateFunc
          /\ Validated(calls[i]) = [isValid |-> FALSE, err |-> Err(<<"v">>)]
          /\ calls[i].in.Default = 1
          /\ calls[i].ret = Return(0, Err(<<"v">>))

\* The methods of NonInteractiveUI that the claims say reach the parent.
ForwardedOps == { "ErrorLinef", "PrintLinef", "BeginLinef", "EndLinef",
                  "PrintBlock", "PrintErrorBlock", "PrintTable", "Flush" }

ForwardedCalls ==
    SelectSeq(calls, LAMBDA c : c.ui = "NonInteractiveUI" /\ c.op \in ForwardedOps)

\* C6: the parent's call log is the sequence of output and Flush calls made
\* on the wrapper: same methods, same arguments, same order, nothing else.
C6_ParentReceivesEveryCall ==
    /\ Len(parent) = Len(ForwardedCalls)
    /\ \A i \in DOMAIN parent :
          /\ parent[i].op = ForwardedCalls[i].op
          /\ parent[i].in = ForwardedCalls[i].in
          /\ ForwardedCalls[i].ret.outcome = "return"

C6_Witness ==
    /\ Len(parent) = 2
    /\ parent[1] = [op |-> "PrintLinef", in |-> [pattern |-> <<"x", "=", "%d">>, args |-> <<5>>]]
    /\ parent[2] = [op |-> "Flush", in |-> [none |-> TRUE]]

\* The calls the collaborators have received beyond those the forwarding
\* methods account for.
UnaccountedParentCalls == Len(parent) - Len(ForwardedCalls)

\* C9: NonInteractiveUI.AskForPassword never returns normally, it panics,
\* and neither the parent UI nor the prompt engine is called by it.
C9_AskForPasswordPanics ==
    /\ \A i \in CallsOf("NonInteractiveUI", "AskForPassword") :
          calls[i].ret.outcome = "panic"
    /\ (CallsOf("NonInteractiveUI", "AskForPassword") # {}
        => (UnaccountedParentCalls = 0 /\ engine = <<>>))

C9_Witness ==
    /\ Len(calls) = 2
    /\ calls[1].op = "PrintLinef"
    /\ calls[2].op = "AskForPassword"
    /\ calls[2].ret.outcome = "panic"
    /\ Len(parent) = 1

\* C10: NonInteractiveUI.AskForConfirmation returns nil after any calls, and
\* neither the parent UI nor the prompt engine is called by it.
C10_AskForConfirmationNil ==
    /\ \A i \in CallsOf("NonInteractiveUI", "AskForConfirmation") :
          calls[i].ret.outcome = "return" /\ calls[i].ret.err = Nil
    /\ (CallsOf("NonInteractiveUI", "AskForConfirmation") # {}
        => (UnaccountedParentCalls = 0 /\ engine = <<>>))

C10_Witness ==
    /\ Len(calls) = 2
    /\ calls[1].op = "AskForText"
    /\ ~calls[1].ret.err.isNil
    /\ calls[2].op = "AskForConfirmation"
    /\ calls[2].ret.err = Nil

-----------------------------------------------------------------------------
(* Properties of WriterUI *)

OutputOps == { "ErrorLinef", "PrintLinef", "BeginLinef", "EndLinef",
               "PrintBlock", "PrintErrorBlock", "PrintTable" }

PromptOps == { "AskForText", "AskForChoice", "AskForPassword", "AskForConfirmation" }

\* The choice calls whose default, in decimal, is none of the choice strings.
Mismatched(c) ==
    /\ c.ui = "WriterUI"
    /\ c.op = "AskForChoice"
    /\ \A k \in 1..Len(c.in.Choices) : c.in.Choices[k] # Itoa(c.in.DefaultValue)

\* The prompt calls made on WriterUI other than the mismatched choice calls.
EnginePrompts ==
    SelectSeq(calls, LAMBDA c : c.ui = "WriterUI" /\ c.op \in PromptOps /\ ~Mismatched(c))

\* C4: a choice call whose default, in decimal, equals none of the choice
\* strings returns index 0 and a non-nil error, and the prompt engine is not
\* invoked by it: the engine has seen the other prompt calls only.
C4_MismatchRejectedBeforeEngine ==
    /\ \A i \in DOMAIN calls :
          Mismatched(calls[i])
          => (calls[i].ret.outcome = "return"
              /\ calls[i].ret.val = 0
              /\ ~calls[i].ret.err.isNil)
    /\ Len(engine) = Len(EnginePrompts)

\* Choices a, b, c with default index 1: position 1 exists, no string is "1".
C4_Witness ==
    /\ Len(calls) = 2
    /\ calls[1].op = "AskForConfirmation"
    /\ calls[2].op = "AskForChoice"
    /\ calls[2].in.Choices = << <<"a">>, <<"b">>, <<"c">> >>
    /\ calls[2].in.DefaultValue = 1
    /\ calls[2].ret.val = 0
    /\ ~calls[2].ret.err.isNil
    /\ Len(engine) = 1

\* The output calls made on WriterUI, and those among them whose write failed.
OutputCalls == SelectSeq(calls, LAMBDA c : c.ui = "WriterUI" /\ c.op \in OutputOps)
FailedWrites == SelectSeq(OutputCalls, LAMBDA c : ~c.io.err.isNil)

\* The message or payload of an output call.
Payload(c) ==
    IF c.op \in {"ErrorLinef", "PrintLinef", "BeginLinef", "EndLinef"}
    THEN Sprintf(c.in.pattern, c.in.args)
    ELSE IF c.op = "PrintTable" THEN c.in.table ELSE c.in.block

CarriesCause(report, c) ==
    \E k \in DOMAIN report.args :
        report.args[k].type = "error" /\ report.args[k].v = c.io.err

CarriesPayload(report, c) ==
    \E k \in DOMAIN report.args :
        report.args[k].type # "error" /\ report.args[k].v = Payload(c)

\* Every output call returns, and the logger has one report per failed write,
\* in the order of the failures, each with the cause of its failure.
OneReportPerFailedWrite ==
    /\ \A i \in DOMAIN OutputCalls : OutputCalls[i].ret = ReturnVoid
    /\ Len(logger) = Len(FailedWrites)
    /\ \A i \in DOMAIN logger :
          /\ logger[i].tag = "ui"
          /\ CarriesCause(logger[i], FailedWrites[i])

\* C5 as stated: in addition every report, PrintTable's included, carries the
\* offending message or payload.
C5_EveryReportCarriesPayload ==
    /\ OneReportPerFailedWrite
    /\ \A i \in DOMAIN logger :
          i <= Len(FailedWrites) => CarriesPayload(logger[i], FailedWrites[i])

\* C5 (amended): every output call returns; the logger has exactly one report
\* per failed write, in the order of the failures and none for a write that
\* succeeded; each report carries the cause, and the offending message or
\* payload except for PrintTable, whose report carries the cause alone.
C5_OneReportPerFailedWrite ==
    /\ OneReportPerFailedWrite
    /\ \A i \in DOMAIN logger :
          i <= Len(FailedWrites)
          => IF FailedWrites[i].op = "PrintTable"
             THEN Len(logger[i].args) = 1
             ELSE CarriesPayload(logger[i], FailedWrites[i])

\* A failed PrintTable, then a failed PrintLinef: two reports, in that order.
C5_Witness ==
    /\ Len(calls) = 2
    /\ calls[1].op = "PrintTable"
    /\ ~calls[1].io.err.isNil
    /\ calls[2].op = "PrintLinef"
    /\ ~calls[2].io.err.isNil
    /\ Len(logger) = 2
    /\ logger[1].args = <<Arg("error", calls[1].io.err)>>
    /\ logger[2].args = <<Arg("string", <<"x", "=", "5">>), Arg("error", calls[2].io.err)>>

WriterCalls == SelectSeq(calls, LAMBDA c : c.ui = "WriterUI")
ErrorLinefCalls == SelectSeq(WriterCalls, LAMBDA c : c.op = "ErrorLinef")
NormalStreamCalls == SelectSeq(WriterCalls, LAMBDA c : c.op \in OutputOps \ {"ErrorLinef"})

\* The text an output call is to put on its stream, and the part of it that
\* the stream accepted (all of it when the write succeeded).
Text(c) ==
    IF c.op \in {"ErrorLinef", "PrintLinef", "EndLinef"}
    THEN Sprintf(c.in.pattern, c.in.args) \o <<"\n">>
    ELSE IF c.op = "BeginLinef" THEN Sprintf(c.in.pattern, c.in.args)
    ELSE IF c.op = "PrintTable" THEN c.in.table.rendered
    ELSE c.in.block

Delivered(c) == IF c.io.err.isNil THEN Text(c) ELSE SubSeq(Text(c), 1, c.io.n)

\* The concatenation of the texts, and of the delivered parts, of a sequence of calls.
RECURSIVE ConcatText(_)
ConcatText(cs) == IF cs = <<>> THEN <<>> ELSE Text(Head(cs)) \o ConcatText(Tail(cs))

RECURSIVE ConcatDelivered(_)
ConcatDelivered(cs) ==
    IF cs = <<>> THEN <<>> ELSE Delivered(Head(cs)) \o ConcatDelivered(Tail(cs))

\* C8 as stated: the error stream holds exactly the ErrorLinef messages, each
\* followed by a line terminator, in call order.
C8_ErrorStreamIsErrorLinefMessages ==
    errWriter = ConcatText(ErrorLinefCalls)

\* C8 (amended): the error stream holds exactly what the ErrorLinef writes
\* delivered, in call order: the message and a line terminator for a write
\* that succeeded, the accepted prefix of it for one that failed; the normal
\* stream holds what the other output methods delivered, PrintErrorBlock's
\* text verbatim among them.
C8_StreamsHoldWhatWasDelivered ==
    /\ errWriter = ConcatDelivered(ErrorLinefCalls)
    /\ outWriter = ConcatDelivered(NormalStreamCalls)

\* ErrorLinef then PrintErrorBlock, both written in full.
C8_Witness ==
    /\ Len(calls) = 2
    /\ calls[1].op = "ErrorLinef"
    /\ calls[1].io.err.isNil
    /\ calls[2].op = "PrintErrorBlock"
    /\ calls[2].io.err.isNil
    /\ errWriter = <<"x", "=", "5", "\n">>
    /\ outWriter = <<"w">>

\* C7: AskForConfirmation returns nil exactly when the engine resolved with
\* an affirmative answer; "Stopped" when it resolved with a negative answer
\* or the default; the engine's error behind "Asking for confirmation: "
\* when the engine failed.
C7_ConfirmationOnlyOnYes ==
    \A i \in CallsOf("WriterUI", "AskForConfirmation") :
        LET o == calls[i].io
            err == calls[i].ret.err
        IN  /\ calls[i].ret.outcome = "return"
            /\ err.isNil <=> (o.kind = "answer" /\ o.value = TRUE)
            /\ (o.kind = "default" \/ (o.kind = "answer" /\ o.value = FALSE))
               => err = Err(<<"Stopped">>)
            /\ o.kind = "fail"
               => err = Err(<<"Asking for confirmation: ">> \o o.err.msg)

C7_Witness ==
    /\ Len(calls) = 2
    /\ calls[1].op = "AskForConfirmation"
    /\ calls[1].io.kind = "default"
    /\ calls[1].ret.err = Err(<<"Stopped">>)
    /\ calls[2].op = "AskForConfirmation"
    /\ calls[2].io = [kind |-> "answer", value |-> TRUE]
    /\ calls[2].ret.err = Nil

====
